---- MODULE Spec2Model ----
(***************************************************************************)
(* Model of the "Always Fresh" agri-food dashboard (src/app.py): the       *)
(* analyse-button handler, the result processing that follows it, and      *)
(* AlwaysFreshAPI.standardize_prices.                                      *)
(*                                                                         *)
(* Text is a sequence of one-character strings, so that replace, extract   *)
(* and contains are computed character by character as pandas computes     *)
(* them.  Numbers are exact decimals m / 10^e (or NaN); float rounding is  *)
(* not modelled.                                                           *)
(***************************************************************************)
EXTENDS Integers, Sequences, FiniteSets, TLC

VARIABLES pc, sector, selected_countries, selected_years, requests,
          data, status, message, df, df_passed, outcome, ui, detection

vars == <<pc, sector, selected_countries, selected_years, requests,
          data, status, message, df, df_passed, outcome, ui, detection>>

(***************************************************************************)
(* Bounds of the model.                                                    *)
(***************************************************************************)
MaxLen == 4
MaxBatch == 2

(***************************************************************************)
(* Text helpers.                                                           *)
(***************************************************************************)
DigitChars == <<"0", "1", "2", "3", "4", "5", "6", "7", "8", "9">>

IsDigit(c) == \E i \in 1..10 : DigitChars[i] = c

DigitVal(c) == (CHOOSE i \in 1..10 : DigitChars[i] = c) - 1

UpperChars == <<"A", "B", "C", "D", "E", "F", "G", "H", "I", "J", "K", "L", "M",
                "N", "O", "P", "Q", "R", "S", "T", "U", "V", "W", "X", "Y", "Z">>

LowerChars == <<"a", "b", "c", "d", "e", "f", "g", "h", "i", "j", "k", "l", "m",
                "n", "o", "p", "q", "r", "s", "t", "u", "v", "w", "x", "y", "z">>

LowerChar(c) ==
  IF \E i \in 1..26 : UpperChars[i] = c
  THEN LowerChars[CHOOSE i \in 1..26 : UpperChars[i] = c]
  ELSE c

Lower(s) == [i \in 1..Len(s) |-> LowerChar(s[i])]

\* s has pat at position i
MatchAt(s, pat, i) ==
  /\ i >= 1
  /\ i + Len(pat) - 1 <= Len(s)
  /\ \A j \in 1..Len(pat) : s[i + j - 1] = pat[j]

Drop(s, n) == IF n >= Len(s) THEN <<>> ELSE SubSeq(s, n + 1, Len(s))

\* Series.str.replace(old, new, regex=False): every non-overlapping
\* occurrence of old, left to right
RECURSIVE StrReplace(_, _, _)
StrReplace(s, old, new) ==
  IF s = <<>> THEN <<>>
  ELSE IF MatchAt(s, old, 1)
       THEN new \o StrReplace(Drop(s, Len(old)), old, new)
       ELSE <<s[1]>> \o StrReplace(Drop(s, 1), old, new)

\* Series.str.contains(pat, case=False)
StrContainsNoCase(s, pat) ==
  \E i \in 1..Len(s) : MatchAt(Lower(s), Lower(pat), i)

(***************************************************************************)
(* Exact decimals: the value m / 10^e, or NaN.                             *)
(***************************************************************************)
NaN == [nan |-> TRUE, m |-> 0, e |-> 0]

Zero == [nan |-> FALSE, m |-> 0, e |-> 0]

RECURSIVE Norm(_, _)
Norm(m, e) ==
  IF e > 0 /\ m % 10 = 0 THEN Norm(m \div 10, e - 1)
  ELSE [nan |-> FALSE, m |-> m, e |-> e]

RECURSIVE Pow10(_)
Pow10(n) == IF n = 0 THEN 1 ELSE 10 * Pow10(n - 1)

Times(x, k) == IF x.nan THEN NaN ELSE Norm(x.m * k, x.e)

Plus(x, y) ==
  IF x.nan \/ y.nan THEN NaN
  ELSE LET e == IF x.e > y.e THEN x.e ELSE y.e
       IN  Norm(x.m * Pow10(e - x.e) + y.m * Pow10(e - y.e), e)

\* value of a run of decimal digits
RECURSIVE DigitsVal(_)
DigitsVal(s) ==
  IF s = <<>> THEN 0
  ELSE 10 * DigitsVal(SubSeq(s, 1, Len(s) - 1)) + DigitVal(s[Len(s)])

(***************************************************************************)
(* Cells of a table: a text, JSON null (Python None) or a missing value    *)
(* (pandas NaN).                                                           *)
(***************************************************************************)
StrCell(s) == [k |-> "str", s |-> s]
NoneCell == [k |-> "null", s |-> <<>>]
NaNCell == [k |-> "nan", s |-> <<>>]

\* Series.astype(str): str(None) is 'None', str(nan) is 'nan'
AsTypeStr(c) ==
  IF c.k = "str" THEN c.s
  ELSE IF c.k = "null" THEN <<"N", "o", "n", "e">>
  ELSE <<"n", "a", "n">>

\* number of consecutive digits of s from position i on
RECURSIVE DigitRun(_, _)
DigitRun(s, i) ==
  IF i <= Len(s) /\ IsDigit(s[i]) THEN 1 + DigitRun(s, i + 1) ELSE 0

\* Series.str.extract(r'(\d+\.?\d*)', expand=False): the leftmost match,
\* each quantifier greedy; NaN when nothing matches
StrExtract(s) ==
  IF \A i \in 1..Len(s) : ~IsDigit(s[i]) THEN NaNCell
  ELSE LET i == CHOOSE k \in 1..Len(s) :
                  IsDigit(s[k]) /\ \A j \in 1..(k - 1) : ~IsDigit(s[j])
           n == DigitRun(s, i)
           dot == IF i + n <= Len(s) /\ s[i + n] = "." THEN 1 ELSE 0
           f == IF dot = 1 THEN DigitRun(s, i + n + 1) ELSE 0
       IN  StrCell(SubSeq(s, i, i + n + dot + f - 1))

\* float() of a decimal literal digits[.[digits]]; anything else is
\* rejected, which errors='coerce' turns into NaN
ParseFloat(s) ==
  LET n == DigitRun(s, 1)
      dot == IF n + 1 <= Len(s) /\ s[n + 1] = "." THEN 1 ELSE 0
      f == IF dot = 1 THEN DigitRun(s, n + 2) ELSE 0
  IN  IF n = 0 \/ n + dot + f # Len(s) THEN NaN
      ELSE Norm(DigitsVal(SubSeq(s, 1, n)) * Pow10(f)
                  + DigitsVal(SubSeq(s, n + 2, n + 1 + f)), f)

\* variant: what cannot be converted counts as 0 (a fillna(0) after coerce)
to_numeric_fillzero(c) ==
  IF c.k # "str" \/ ParseFloat(c.s).nan THEN Zero ELSE ParseFloat(c.s)

\* pd.to_numeric(..., errors='coerce'): NaN stays NaN
to_numeric(c) == IF c.k # "str" THEN NaN ELSE ParseFloat(c.s)

(***************************************************************************)
(* pd.DataFrame(list of dicts): the columns are the union of the keys, a   *)
(* key a record lacks is NaN in its row.                                   *)
(***************************************************************************)
DataFrame(items) ==
  LET cols == UNION {DOMAIN items[i] : i \in 1..Len(items)}
  IN  [columns |-> cols,
       rows |-> [i \in 1..Len(items) |->
                   [c \in cols |-> IF c \in DOMAIN items[i]
                                   THEN items[i][c] ELSE NaNCell]]]

NoTable == [columns |-> {}, rows |-> <<>>]

\* DataFrame.empty: no rows or no columns
df_empty(d) == d.rows = <<>> \/ d.columns = {}

(***************************************************************************)
(* AlwaysFreshAPI.standardize_prices, column by column.                    *)
(***************************************************************************)
EuroSign == <<"€">>
EuroPerKg == <<"€", "/", "k", "g">>
EuroPer100kg == <<"€", "/", "1", "0", "0", "k", "g">>
UnitPlaceholder == <<"€", "/", "u", "n", "i", "t", "é">>

price_raw(row) == AsTypeStr(row["price"])

strip_euro(s) == StrReplace(s, EuroSign, <<>>)

\* variant: the comma is left in place
comma_kept(s) == s

comma_to_dot(s) == StrReplace(s, <<",">>, <<".">>)

price_clean(row) == StrExtract(comma_to_dot(strip_euro(price_raw(row))))

price_numeric(row) == to_numeric(price_clean(row))

\* df['unit'].astype(str) if 'unit' in df.columns else '€/unité'
unit_astype(row, columns) ==
  IF "unit" \in columns THEN AsTypeStr(row["unit"]) ELSE UnitPlaceholder

kg_mask(row, columns) == StrContainsNoCase(unit_astype(row, columns), EuroPerKg)

price_standardized(row, columns) ==
  IF kg_mask(row, columns) THEN Times(price_numeric(row), 100)
  ELSE price_numeric(row)

unit_standardized(row, columns) ==
  IF kg_mask(row, columns) THEN EuroPer100kg ELSE unit_astype(row, columns)

unit_display(row, columns) ==
  StrReplace(unit_standardized(row, columns),
             <<"1", "0", "0", "K", "G">>, <<"1", "0", "0", "k", "g">>)

DerivedColumns == {"price_raw", "price_clean", "price_numeric",
                   "unit_standardized", "price_standardized", "unit_display"}

standardize_row(row, columns) ==
  [c \in columns \cup DerivedColumns |->
     CASE c = "price_raw" -> StrCell(price_raw(row))
       [] c = "price_clean" -> price_clean(row)
       [] c = "price_numeric" -> price_numeric(row)
       [] c = "unit_standardized" -> StrCell(unit_standardized(row, columns))
       [] c = "price_standardized" -> price_standardized(row, columns)
       [] c = "unit_display" -> StrCell(unit_display(row, columns))
       [] OTHER -> row[c]]

standardize_prices(d) ==
  IF df_empty(d) \/ "price" \notin d.columns THEN d
  ELSE [columns |-> d.columns \cup DerivedColumns,
        rows |-> [i \in 1..Len(d.rows) |-> standardize_row(d.rows[i], d.columns)]]

\* the table object the caller passed, as the call leaves it: every
\* df[...] = ... assigns on the parameter itself, which is also what is
\* returned
argument_after(d) == standardize_prices(d)

(***************************************************************************)
(* Decoded JSON values as the script sees them, with Python's truth value  *)
(* and len().                                                              *)
(***************************************************************************)
Null == [t |-> "null", items |-> <<>>, s |-> <<>>, n |-> 0]
Arr(items) == [t |-> "array", items |-> items, s |-> <<>>, n |-> 0]
Obj(d) == [t |-> "object", items |-> <<d>>, s |-> <<>>, n |-> 0]
StrV(s) == [t |-> "string", items |-> <<>>, s |-> s, n |-> 0]
IntV(n) == [t |-> "int", items |-> <<>>, s |-> <<>>, n |-> n]

Truthy(v) ==
  CASE v.t = "null" -> FALSE
    [] v.t = "array" -> v.items # <<>>
    [] v.t = "object" -> DOMAIN v.items[1] # {}
    [] v.t = "string" -> v.s # <<>>
    [] v.t = "int" -> v.n # 0

\* len() is defined for arrays, objects and strings; len(int) is a TypeError
HasLen(v) == v.t \in {"array", "object", "string"}

\* pd.DataFrame(data) accepts a list of dicts; a dict of scalars and a str
\* are rejected with ValueError
DataFrameAccepts(v) == v.t = "array"

(***************************************************************************)
(* AlwaysFreshAPI._make_request: the (data, status, message) triple for a  *)
(* response of the remote service.                                         *)
(***************************************************************************)
HttpStatus(code) ==
  CASE code = 404 -> "http_404"
    [] code = 500 -> "http_500"
    [] OTHER -> "http_other"

HttpMessage(code) ==
  CASE code = 404 -> "HTTP 404"
    [] code = 500 -> "HTTP 500"
    [] OTHER -> "HTTP other"

_make_request(resp) ==
  IF resp.kind = "exc" THEN <<Null, "error", "exception text">>
  ELSE IF resp.code = 200 THEN <<resp.json, "success", "OK">>
  ELSE <<Null, HttpStatus(resp.code), HttpMessage(resp.code)>>

NotCalled == <<Null, "not_called", "">>

\* f"{year-1}/{str(year)[-2:]}" for a four-digit year
MarketingYear(year) == [from |-> year - 1, to2 |-> year % 100]

\* marketing_years of the olive-oil branch: years before 2020 are skipped
RECURSIVE marketing_years(_)
marketing_years(years) ==
  IF years = <<>> THEN <<>>
  ELSE (IF years[1] >= 2020 THEN <<MarketingYear(years[1])>> ELSE <<>>)
         \o marketing_years(Tail(years))

\* the request the chosen sector's API method builds; cereals has no branch
RequestOf(sec, countries, years, adv) ==
  CASE sec = "beef" ->
         <<[endpoint |-> "beef/prices", memberStateCodes |-> countries,
            years |-> years, marketingYears |-> <<>>,
            carcassCategories |-> adv, products |-> <<>>]>>
    [] sec = "milk" ->
         <<[endpoint |-> "rawMilk/prices", memberStateCodes |-> countries,
            years |-> years, marketingYears |-> <<>>,
            carcassCategories |-> <<>>, products |-> adv]>>
    [] sec = "olive_oil" ->
         <<[endpoint |-> "oliveOil/prices", memberStateCodes |-> countries,
            years |-> <<>>, marketingYears |-> marketing_years(years),
            carcassCategories |-> <<>>, products |-> adv]>>
    [] OTHER -> <<>>

(***************************************************************************)
(* pd.to_datetime(df['beginDate'], format='%d/%m/%Y') and the latest-date  *)
(* metric.                                                                 *)
(***************************************************************************)
NaT == [nat |-> TRUE, y |-> 0, m |-> 0, d |-> 0]

IsLeap(y) == (y % 4 = 0 /\ y % 100 # 0) \/ y % 400 = 0

DaysInMonth(y, m) ==
  IF m = 2 THEN (IF IsLeap(y) THEN 29 ELSE 28)
  ELSE IF m \in {4, 6, 9, 11} THEN 30 ELSE 31

AllDigits(s) == \A i \in 1..Len(s) : IsDigit(s[i])

Slashes(s) == {i \in 1..Len(s) : s[i] = "/"}

\* strptime with '%d/%m/%Y': one or two digits, '/', one or two digits,
\* '/', four digits, naming a day of the calendar
DateMatches(s) ==
  /\ Cardinality(Slashes(s)) = 2
  /\ LET p1 == CHOOSE i \in Slashes(s) : \A j \in Slashes(s) : i <= j
         p2 == CHOOSE i \in Slashes(s) : \A j \in Slashes(s) : i >= j
         dd == SubSeq(s, 1, p1 - 1)
         mm == SubSeq(s, p1 + 1, p2 - 1)
         yy == SubSeq(s, p2 + 1, Len(s))
     IN  /\ AllDigits(dd) /\ AllDigits(mm) /\ AllDigits(yy)
         /\ Len(dd) \in {1, 2} /\ Len(mm) \in {1, 2} /\ Len(yy) = 4
         /\ DigitsVal(mm) \in 1..12
         /\ DigitsVal(dd) \in 1..DaysInMonth(DigitsVal(yy), DigitsVal(mm))

ParseDate(s) ==
  LET p1 == CHOOSE i \in Slashes(s) : \A j \in Slashes(s) : i <= j
      p2 == CHOOSE i \in Slashes(s) : \A j \in Slashes(s) : i >= j
  IN  [nat |-> FALSE,
       y |-> DigitsVal(SubSeq(s, p2 + 1, Len(s))),
       m |-> DigitsVal(SubSeq(s, p1 + 1, p2 - 1)),
       d |-> DigitsVal(SubSeq(s, 1, p1 - 1))]

\* to_datetime raises for the whole column as soon as one text fails to
\* match; None and NaN become NaT
DatesParse(d) ==
  \A i \in 1..Len(d.rows) :
     d.rows[i]["beginDate"].k = "str" => DateMatches(d.rows[i]["beginDate"].s)

date_parsed(row) ==
  IF row["beginDate"].k = "str" THEN ParseDate(row["beginDate"].s) ELSE NaT

DateKey(t) == t.y * 10000 + t.m * 100 + t.d

\* df['date_parsed'].max(): NaT is skipped; NaT when nothing is left
MaxDate(d) ==
  LET ts == {date_parsed(d.rows[i]) : i \in 1..Len(d.rows)} \ {NaT}
  IN  IF ts = {} THEN NaT
      ELSE CHOOSE t \in ts : \A u \in ts : DateKey(u) <= DateKey(t)

NoDate == [na |-> TRUE, m |-> 0, y |-> 0]

\* latest_date stays "N/A" when the column is absent, when parsing raises,
\* and when NaT.strftime raises
latest_date(d) ==
  IF "beginDate" \notin d.columns \/ ~DatesParse(d) \/ MaxDate(d).nat
  THEN NoDate
  ELSE [na |-> FALSE, m |-> MaxDate(d).m, y |-> MaxDate(d).y]

\* the assignment df['date_parsed'] = ... takes place when parsing succeeds
with_date_parsed(d) ==
  IF "beginDate" \in d.columns /\ DatesParse(d)
  THEN [columns |-> d.columns \cup {"date_parsed"},
        rows |-> [i \in 1..Len(d.rows) |->
                    [c \in d.columns \cup {"date_parsed"} |->
                       IF c = "date_parsed" THEN date_parsed(d.rows[i])
                       ELSE d.rows[i][c]]]]
  ELSE d

(***************************************************************************)
(* Result processing: what the script renders for (data, status, message). *)
(***************************************************************************)
\* df['price_standardized'].mean() skips NaN: the sum and the number of the
\* values that are present (the mean is sum / n, NaN when n = 0)
RECURSIVE PriceSum(_, _)
PriceSum(rows, i) ==
  IF i > Len(rows) THEN Zero
  ELSE IF rows[i]["price_standardized"].nan THEN PriceSum(rows, i + 1)
  ELSE Plus(rows[i]["price_standardized"], PriceSum(rows, i + 1))

avg_price(d) ==
  [sum |-> PriceSum(d.rows, 1),
   n |-> Cardinality({i \in 1..Len(d.rows) : ~d.rows[i]["price_standardized"].nan})]

NoMetric == [kind |-> "none", sum |-> Zero, n |-> 0, unit |-> <<>>]

\* first metric: the mean price labelled with the unit of the first row,
\* or the number of records
price_metric(d) ==
  IF "price_standardized" \in d.columns
  THEN [kind |-> "avg", sum |-> avg_price(d).sum, n |-> avg_price(d).n,
        unit |-> IF "unit_display" \in d.columns
                 THEN d.rows[1]["unit_display"].s ELSE EuroSign]
  ELSE [kind |-> "count", sum |-> Zero, n |-> Len(d.rows), unit |-> <<>>]

\* df['memberStateCode'].nunique(): distinct values, None and NaN excluded
countries_count(d) ==
  IF "memberStateCode" \in d.columns
  THEN Cardinality({d.rows[i]["memberStateCode"] : i \in 1..Len(d.rows)}
                     \ {NoneCell, NaNCell})
  ELSE 0

\* px.line is reached when there is a price column and more than one row
ChartReached(d) == "price_standardized" \in d.columns /\ Len(d.rows) > 1

\* px.line(color='memberStateCode') raises ValueError without that column
ChartRaises(d) == ChartReached(d) /\ "memberStateCode" \notin d.columns

display_columns(d) ==
  {"memberStateName", "beginDate", "price_standardized", "unit_display",
   "product"} \cap d.columns

display_df(d) ==
  [i \in 1..Len(d.rows) |-> [c \in display_columns(d) |-> d.rows[i][c]]]

BlankUI ==
  [error |-> [shown |-> FALSE, text |-> ""],
   success |-> -1,
   metric1 |-> NoMetric,
   countries |-> [count |-> -1, of |-> -1],
   metric3 |-> "none",
   latest_date |-> NoDate,
   date_shown |-> FALSE,
   chart |-> FALSE,
   table_shown |-> FALSE,
   table |-> <<>>,
   exports |-> FALSE,
   exception |-> ""]

ErrorUI(text) == [BlankUI EXCEPT !.error = [shown |-> TRUE, text |-> text]]

Raised(d, passed, u, name) ==
  [df |-> d, passed |-> passed, outcome |-> "exception",
   ui |-> [u EXCEPT !.exception = name]]

Results(dat, stat, msg, countries, years) ==
  IF ~(stat = "success" /\ Truthy(dat))
  THEN [df |-> NoTable, passed |-> NoTable, outcome |-> "error",
        ui |-> ErrorUI(msg)]
  ELSE IF ~HasLen(dat) THEN Raised(NoTable, NoTable, BlankUI, "TypeError")
  ELSE IF ~DataFrameAccepts(dat)
       THEN Raised(NoTable, NoTable, BlankUI, "ValueError")
  ELSE
    LET d0 == standardize_prices(DataFrame(dat.items))
        passed == argument_after(DataFrame(dat.items))
        d1 == with_date_parsed(d0)
        metrics ==
          [BlankUI EXCEPT
             !.success = Len(d0.rows),
             !.metric1 = price_metric(d0),
             !.countries = [count |-> countries_count(d0), of |-> Len(countries)],
             !.metric3 = IF "price_standardized" \in d0.columns
                         THEN "volatility" ELSE "years",
             !.latest_date = latest_date(d0),
             !.date_shown = TRUE]
    IN  IF ChartRaises(d1) THEN Raised(d1, passed, metrics, "ValueError")
        ELSE [df |-> d1, passed |-> passed, outcome |-> "success",
              ui |-> [metrics EXCEPT
                        !.chart = ChartReached(d1),
                        !.table_shown = TRUE,
                        !.table = display_df(d1),
                        !.exports = TRUE]]

(***************************************************************************)
(* Detection of the years: auto_detect_latest_year, _quick_test_year and   *)
(* get_optimal_years.  The service is the set of years for which a probe   *)
(* request comes back with data; each of the two cached calls sees the     *)
(* service at its own time.                                                *)
(***************************************************************************)
\* datetime.now().year
CurrentYear == 2026

KnownSectors == {"beef", "milk", "olive_oil", "cereals"}

\* a probe succeeds when the sector has an endpoint and the response is a
\* success with data
_quick_test_year(sec, year, answered) == sec \in KnownSectors /\ year \in answered

\* for year in range(current_year, current_year - 6, -1): first success
RECURSIVE LatestLoop(_, _, _)
LatestLoop(sec, year, answered) ==
  IF year <= CurrentYear - 6
  THEN [year |-> CurrentYear - 1, detected |-> FALSE]
  ELSE IF _quick_test_year(sec, year, answered)
       THEN [year |-> year, detected |-> TRUE]
       ELSE LatestLoop(sec, year - 1, answered)

auto_detect_latest_year(sec, answered) == LatestLoop(sec, CurrentYear, answered)

\* for year in range(latest_year, latest_year - 8, -1), until max_years
\* years are collected
RECURSIVE OptimalLoop(_, _, _, _, _, _)
OptimalLoop(sec, year, stop, optimal_years, max_years, answered) ==
  IF year <= stop \/ Len(optimal_years) >= max_years THEN optimal_years
  ELSE OptimalLoop(sec, year - 1, stop,
                   IF _quick_test_year(sec, year, answered)
                   THEN Append(optimal_years, year) ELSE optimal_years,
                   max_years, answered)

\* return optimal_years or [current_year - 1, current_year - 2]
get_optimal_years(sec, max_years, latest_year, answered) ==
  LET optimal_years ==
        OptimalLoop(sec, latest_year, latest_year - 8, <<>>, max_years, answered)
  IN  IF optimal_years # <<>> THEN optimal_years
      ELSE <<CurrentYear - 1, CurrentYear - 2>>

\* the years whose probe returned success during the call
ConfirmedYears(sec, max_years, latest_year, answered) ==
  LET optimal_years ==
        OptimalLoop(sec, latest_year, latest_year - 8, <<>>, max_years, answered)
  IN  {optimal_years[i] : i \in 1..Len(optimal_years)}

\* display_auto_detection_summary asks for at most 6 years
MaxYears == 6

Take(seq, n) == IF Len(seq) <= n THEN seq ELSE SubSeq(seq, 1, n)

\* the year selector of the sidebar for the result of one detection
DetectionOf(sec, answered_latest, answered_optimal) ==
  LET latest == auto_detect_latest_year(sec, answered_latest)
      optimal_years == get_optimal_years(sec, MaxYears, latest.year,
                                         answered_optimal)
  IN  [fresh |-> TRUE,
       latest_year |-> latest.year,
       latest_detected |-> latest.detected,
       optimal_years |-> optimal_years,
       confirmed |-> ConfirmedYears(sec, MaxYears, latest.year,
                                    answered_optimal),
       label |-> IF optimal_years # <<>>
                 THEN "Années (détectées automatiquement)"
                 ELSE "Années (fallback)",
       help |-> IF optimal_years # <<>>
                THEN "Années avec données confirmées disponibles" ELSE "",
       options |-> IF optimal_years # <<>> THEN optimal_years
                   ELSE <<2023, 2022, 2021>>,
       default |-> IF optimal_years # <<>> THEN Take(optimal_years, 3)
                   ELSE <<2023, 2022>>]

(***************************************************************************)
(* The script.  It runs from top to bottom on every interaction; the       *)
(* analyse button is pressed in at most one run out of two.                *)
(***************************************************************************)
\* the run that follows the construction of the page: the first sector of
\* the selector, the selections the detection proposed, no button pressed
InitWith(countries, years) ==
  /\ pc = "idle"
  /\ sector = "beef"
  /\ selected_countries = countries
  /\ selected_years = years
  /\ requests = <<>>
  /\ data = Null
  /\ status = "unset"
  /\ message = ""
  /\ df = NoTable
  /\ df_passed = NoTable
  /\ outcome = "none"
  /\ ui = BlankUI
  /\ detection = DetectionOf("beef", {CurrentYear}, {2023, 2019})

\* a run in which the button is not pressed renders none of the results
NothingRendered ==
  /\ pc' = "idle"
  /\ requests' = <<>>
  /\ data' = Null
  /\ status' = "unset"
  /\ message' = ""
  /\ df' = NoTable
  /\ df_passed' = NoTable
  /\ outcome' = "none"
  /\ ui' = BlankUI

\* the button handler and the result processing of one run
Analyse(adv, resp) ==
  /\ pc = "idle"
  /\ pc' = "shown"
  /\ UNCHANGED <<sector, selected_countries, selected_years, detection>>
  /\ IF selected_countries = <<>> \/ selected_years = <<>>
     THEN /\ requests' = <<>>
          /\ data' = Null
          /\ status' = "unset"
          /\ message' = ""
          /\ df' = NoTable
          /\ df_passed' = NoTable
          /\ outcome' = "error"
          /\ ui' = ErrorUI("select")
     ELSE LET req == RequestOf(sector, selected_countries, selected_years, adv)
              r == IF req = <<>> THEN NotCalled ELSE _make_request(resp)
          IN  \E res \in {Results(r[1], r[2], r[3],
                                    selected_countries, selected_years)} :
              /\ requests' = req
              /\ data' = r[1]
              /\ status' = r[2]
              /\ message' = r[3]
              /\ df' = res.df
              /\ df_passed' = res.passed
              /\ outcome' = res.outcome
              /\ ui' = res.ui

SelectSector(sec) ==
  /\ sec # sector
  /\ sector' = sec
  /\ UNCHANGED <<selected_countries, selected_years, detection>>
  /\ NothingRendered

SelectCountries(countries) ==
  /\ countries # selected_countries
  /\ selected_countries' = countries
  /\ UNCHANGED <<sector, selected_years, detection>>
  /\ NothingRendered

SelectYears(years) ==
  /\ years # selected_years
  /\ selected_years' = years
  /\ UNCHANGED <<sector, selected_countries, detection>>
  /\ NothingRendered

Rerun ==
  /\ pc = "shown"
  /\ UNCHANGED <<sector, selected_countries, selected_years, detection>>
  /\ NothingRendered

\* the cached result of the detection reaches its time to live
Expire ==
  /\ detection.fresh
  /\ detection' = [detection EXCEPT !.fresh = FALSE]
  /\ UNCHANGED <<pc, sector, selected_countries, selected_years, requests,
                 data, status, message, df, df_passed, outcome, ui>>

\* a run that finds no cached result detects the years again and offers
\* them in the sidebar, the first three selected
Detect(answered_latest, answered_optimal) ==
  /\ ~detection.fresh
  /\ detection' = DetectionOf(sector, answered_latest, answered_optimal)
  /\ selected_years' = detection'.default
  /\ UNCHANGED <<sector, selected_countries>>
  /\ NothingRendered

(***************************************************************************)
(* Inputs: widget choices, responses of the service, raw records.          *)
(***************************************************************************)
Sectors == {"beef", "milk", "olive_oil", "cereals"}

PT == <<"P", "T">>
ES == <<"E", "S">>

CountryChoices == {<<>>, <<"PT">>}
YearChoices == {<<>>, <<2023>>, <<2023, 2019>>}

\* the advanced multiselect of the sector: emptied, or left at its default
AdvChoices(sec) ==
  CASE sec = "beef" -> {<<>>, <<"heifers", "cows">>}
    [] sec = "milk" -> {<<>>, <<"raw milk">>}
    [] sec = "olive_oil" -> {<<>>, <<"Extra virgin olive oil (up to 0.8%)">>}
    [] OTHER -> {<<>>}

Date1 == <<"0", "1", "/", "0", "3", "/", "2", "0", "2", "3">>
Date2 == <<"1", "5", "/", "0", "4", "/", "2", "0", "2", "3">>
DateIso == <<"2", "0", "2", "3", "-", "0", "3", "-", "0", "1">>

Price_12_50 == <<"1", "2", ",", "5", "0", "€">>
Price_45_20 == <<"4", "5", ",", "2", "0", " ", "€">>
Price_NA == <<"N", "/", "A">>

Unit_EurKg == <<"€", "/", "k", "g">>
Unit_EurKG == <<"€", "/", "K", "G">>
Unit_EURkg == <<"E", "U", "R", "/", "k", "g">>
Unit_Eur100kg == <<"€", "/", "1", "0", "0", "k", "g">>
Unit_Eur100KG == <<"€", "/", "1", "0", "0", "K", "G">>
Unit_CentKg == <<"c", "€", "/", "k", "g">>
Unit_EurT == <<"€", "/", "t">>

\* a raw record; an option is <<>> (the key is absent) or <<cell>>
Rec(country, date, price, unit, product) ==
  LET keys == (IF country = <<>> THEN {} ELSE {"memberStateCode"})
                \cup (IF date = <<>> THEN {} ELSE {"beginDate"})
                \cup (IF price = <<>> THEN {} ELSE {"price"})
                \cup (IF unit = <<>> THEN {} ELSE {"unit"})
                \cup (IF product = <<>> THEN {} ELSE {"product"})
  IN  [f \in keys |->
         CASE f = "memberStateCode" -> country[1]
           [] f = "beginDate" -> date[1]
           [] f = "price" -> price[1]
           [] f = "unit" -> unit[1]
           [] f = "product" -> product[1]]

S(text) == <<StrCell(text)>>

Batches(records) == UNION {[1..n -> records] : n \in 1..MaxBatch}

\* records of the complete script
MainRecords ==
  {Rec(S(PT), S(Date1), S(Price_45_20), S(Unit_EURkg), <<>>),
   Rec(S(PT), S(Date1), S(Price_12_50), S(Unit_Eur100kg), <<>>),
   Rec(S(ES), S(Date2), S(Price_12_50), S(Unit_EurKg), S(<<"A">>)),
   Rec(S(ES), S(DateIso), <<>>, <<>>, <<>>),
   Rec(<<>>, <<>>, S(Price_NA), <<>>, <<>>),
   Rec(S(PT), <<NoneCell>>, <<NoneCell>>, <<NoneCell>>, <<>>)}

Ok(json) == [kind |-> "http", code |-> 200, json |-> json]

Failures ==
  {[kind |-> "exc", code |-> 0, json |-> Null],
   [kind |-> "http", code |-> 404, json |-> Null],
   [kind |-> "http", code |-> 500, json |-> Null]}

MainResponses ==
  Failures
    \cup {Ok(Null), Ok(Arr(<<>>)), Ok(Obj(<<>>)), Ok(StrV(<<>>)),
          Ok(StrV(<<"a", "b">>)), Ok(IntV(0)), Ok(IntV(5))}
    \cup {Ok(Obj(r)) : r \in MainRecords}
    \cup {Ok(Arr(b)) : b \in Batches(MainRecords)}

\* records of the normalisation: one country, one date, every combination
\* of a price and a unit
PriceOptions ==
  {<<>>, <<NoneCell>>, S(<<>>), S(Price_NA), S(Price_12_50), S(Price_45_20)}

UnitOptions ==
  {<<>>, <<NoneCell>>, S(Unit_EurKg), S(Unit_EurKG), S(Unit_EURkg),
   S(Unit_Eur100kg), S(Unit_Eur100KG), S(Unit_CentKg), S(Unit_EurT),
   S(UnitPlaceholder)}

NormRecords ==
  {Rec(S(PT), S(Date1), p, u, <<>>) : p \in PriceOptions, u \in UnitOptions}

\* the records that accompany a record of NormRecords in its batch
Companions ==
  {Rec(S(PT), S(Date1), <<>>, <<>>, <<>>),
   Rec(S(PT), S(Date1), S(Price_12_50), <<>>, <<>>),
   Rec(S(PT), S(Date1), S(Price_45_20), S(Unit_EurKg), <<>>),
   Rec(S(PT), S(Date1), <<NoneCell>>, S(Unit_Eur100KG), <<>>)}

InsertAt(seq, r, k) == SubSeq(seq, 1, k - 1) \o <<r>> \o SubSeq(seq, k, Len(seq))

\* every record of NormRecords at every position among up to MaxBatch - 1
\* companions
NormBatches ==
  UNION {{InsertAt(cs, r, k) : r \in NormRecords, k \in 1..(Len(cs) + 1)} :
           cs \in UNION {[1..n -> Companions] : n \in 0..(MaxBatch - 1)}}

\* price texts of the parser: every text up to MaxLen over a small alphabet
PriceAlphabet == {"1", "5", "0", ",", ".", "€", " "}

PriceTexts ==
  UNION {[1..n -> PriceAlphabet] : n \in 0..MaxLen}
    \cup {Price_12_50, Price_45_20}

ParseRecords == {Rec(S(PT), S(Date1), S(t), <<>>, <<>>) : t \in PriceTexts}

\* raw records that already carry a field with the name of a column the
\* normalisation writes, or another field of their own
WithField(r, f, cell) ==
  [g \in DOMAIN r \cup {f} |-> IF g = f THEN cell ELSE r[g]]

OwnFields == {"price_raw", "price_numeric", "unit_display", "memberStateName"}

FrameRecords ==
  {WithField(r, f, StrCell(<<"x">>)) : r \in Companions, f \in OwnFields}

(***************************************************************************)
(* Specifications.                                                         *)
(***************************************************************************)
Init == \E c \in CountryChoices, y \in YearChoices : InitWith(c, y)

Press ==
  /\ pc = "idle"
  /\ \E adv \in AdvChoices(sector), resp \in MainResponses : Analyse(adv, resp)

ChangeSector == \E sec \in Sectors : SelectSector(sec)

ChangeCountries == \E c \in CountryChoices : SelectCountries(c)

ChangeYears == \E y \in YearChoices : SelectYears(y)

Next == Press \/ ChangeSector \/ ChangeCountries \/ ChangeYears \/ Rerun

Spec == Init /\ [][Next]_vars

\* the normalisation of every batch of NormBatches, beef sector
InitNorm == InitWith(<<"PT">>, <<2023>>)

PressNorm ==
  /\ pc = "idle"
  /\ \E b \in NormBatches : Analyse(<<>>, Ok(Arr(b)))

NextNorm == PressNorm \/ Rerun

SpecNorm == InitNorm /\ [][NextNorm]_vars

\* the parsing of every price text, one record per batch
PressParse ==
  /\ pc = "idle"
  /\ \E r \in ParseRecords : Analyse(<<>>, Ok(Arr(<<r>>)))

NextParse == PressParse \/ Rerun

SpecParse == InitNorm /\ [][NextParse]_vars

\* the normalisation of batches whose records have fields of their own
PressFrame ==
  /\ pc = "idle"
  /\ \E b \in Batches(FrameRecords) : Analyse(<<>>, Ok(Arr(b)))

NextFrame == PressFrame \/ Rerun

SpecFrame == InitNorm /\ [][NextFrame]_vars

\* what the service answers to the probes of auto_detect_latest_year:
\* nothing, the current year, or only older years of its six-year range
LatestServices ==
  {{}, {CurrentYear}, {CurrentYear - 2}, {CurrentYear - 5}}

\* what the service answers, up to half an hour apart, to the probes of
\* get_optimal_years
OptimalServices == SUBSET ((CurrentYear - 7)..CurrentYear)

\* the detection of the years against every state of the service
DetectYears ==
  /\ ~detection.fresh
  /\ \E answered_latest \in LatestServices,
        answered_optimal \in OptimalServices :
        Detect(answered_latest, answered_optimal)

NextYears == Expire \/ DetectYears

SpecYears == InitNorm /\ [][NextYears]_vars

(***************************************************************************)
(* Properties.                                                             *)
(***************************************************************************)
HasPrice(r) == "price" \in DOMAIN r

HasUnit(r) == "unit" \in DOMAIN r

\* the raw records of the batch that was turned into the table
Batch == data.items

Normalised == outcome = "success" /\ "price_numeric" \in df.columns

\* a digit, a comma, a digit: a number written with a decimal comma
CommaDecimal(t) ==
  \E i \in 1..(Len(t) - 2) :
     IsDigit(t[i]) /\ t[i + 1] = "," /\ IsDigit(t[i + 2])

NotEuro(c) == c # "€"

\* the text without its '€', every ',' written '.'
Cleaned(t) ==
  LET u == SelectSeq(t, NotEuro)
  IN  [i \in 1..Len(u) |-> IF u[i] = "," THEN "." ELSE u[i]]

\* the value of the first digits[.digits] substring of a text with a digit
FirstNumber(t) ==
  LET i == CHOOSE k \in 1..Len(t) :
             IsDigit(t[k]) /\ \A j \in 1..(k - 1) : ~IsDigit(t[j])
      n == DigitRun(t, i)
      f == IF i + n + 1 <= Len(t) /\ t[i + n] = "." /\ IsDigit(t[i + n + 1])
           THEN DigitRun(t, i + n + 1) ELSE 0
  IN  Norm(DigitsVal(SubSeq(t, i, i + n - 1)) * Pow10(f)
             + DigitsVal(SubSeq(t, i + n + 1, i + n + f)), f)

\* C1: for every record whose price text holds a number written with a
\* decimal comma (with or without '€'), price_numeric is the value of the
\* first digits[.digits] substring of the text once '€' is removed and ','
\* is replaced by '.'.
C1_PriceParsing ==
  outcome = "success" =>
    \A i \in 1..Len(Batch) :
       (/\ HasPrice(Batch[i])
        /\ Batch[i]["price"].k = "str"
        /\ CommaDecimal(Batch[i]["price"].s))
         => df.rows[i]["price_numeric"] = FirstNumber(Cleaned(Batch[i]["price"].s))

\* "12,50€" has been normalised to 12.5
C1_Witness ==
  /\ outcome = "success"
  /\ HasPrice(Batch[1])
  /\ Batch[1]["price"] = StrCell(Price_12_50)
  /\ df.rows[1]["price_numeric"] = [nan |-> FALSE, m |-> 125, e |-> 1]

\* the price of the record is missing, null, empty or without any digit
Unparseable(r) ==
  \/ ~HasPrice(r)
  \/ r["price"].k # "str"
  \/ \A j \in 1..Len(r["price"].s) : ~IsDigit(r["price"].s[j])

\* C8: a record whose price is missing, null, empty or without a digit
\* never makes the normalisation raise, and its price_numeric and
\* price_standardized are absent: NaN, or no such column at all, never a
\* number.
C8_UnparseableAbsent ==
  (pc = "shown" /\ status = "success" /\ data.t = "array" /\ Batch # <<>>) =>
    /\ outcome = "success"
    /\ \A i \in 1..Len(Batch) :
          Unparseable(Batch[i]) =>
            /\ "price_numeric" \in df.columns => df.rows[i]["price_numeric"] = NaN
            /\ "price_standardized" \in df.columns
                 => df.rows[i]["price_standardized"] = NaN

\* an empty price text next to a parseable one has given NaN
C8_Witness ==
  /\ Normalised
  /\ \E i \in 1..Len(Batch) :
        /\ HasPrice(Batch[i])
        /\ Batch[i]["price"] = StrCell(<<>>)
        /\ df.rows[i]["price_numeric"] = NaN
        /\ df.rows[i]["price_standardized"] = NaN
  /\ \E i \in 1..Len(Batch) : ~df.rows[i]["price_numeric"].nan

\* unit texts that denote a currency rate per single kilogram
PerKgUnits == {Unit_EurKg, Unit_EurKG, Unit_EURkg}

PerKgRate(r) == HasUnit(r) /\ r["unit"].k = "str" /\ r["unit"].s \in PerKgUnits

\* C2: for every record whose unit denotes a rate per single kilogram
\* ("€/kg", "EUR/kg"), price_standardized is 100 times the parsed price and
\* unit_standardized is '€/100kg'.
C2_UnitConversion ==
  Normalised =>
    \A i \in 1..Len(Batch) :
       PerKgRate(Batch[i]) =>
         /\ df.rows[i]["price_standardized"]
              = Times(df.rows[i]["price_numeric"], 100)
         /\ df.rows[i]["unit_standardized"] = StrCell(EuroPer100kg)

KeyFields == {"memberStateCode", "beginDate", "product"}

\* country code, date and, when present, product of a record or row
NaturalKey(r) == [f \in KeyFields \cap DOMAIN r |-> r[f]]

\* positions of the records that are the first of their natural key
FirstOfKey(batch) ==
  {i \in 1..Len(batch) :
     \A j \in 1..(i - 1) : NaturalKey(batch[j]) # NaturalKey(batch[i])}

\* C3: the table of a processed batch holds exactly one record per natural
\* key, the first one met in the order of the batch, so that the number
\* of records announced is the number of distinct keys.
C3_Deduplicated ==
  (outcome = "success" /\ data.t = "array") =>
    /\ Len(df.rows) = Cardinality(FirstOfKey(Batch))
    /\ ui.success = Cardinality(FirstOfKey(Batch))
    /\ \A i, j \in 1..Len(df.rows) :
          i # j => NaturalKey(df.rows[i]) # NaturalKey(df.rows[j])

NormalisedAttributes ==
  {"price_numeric", "price_standardized", "unit_standardized", "unit_display"}

\* the derived attributes of row i, those that are present
Attributes(d, i) ==
  [c \in NormalisedAttributes \cap d.columns |-> d.rows[i][c]]

\* C4: the derived attributes of a record in its batch are the ones it
\* gets when it is normalised alone, as a batch of one record.
C4_PerRecord ==
  (outcome = "success" /\ data.t = "array") =>
    \A i \in 1..Len(Batch) :
       Attributes(df, i)
         = Attributes(standardize_prices(DataFrame(<<Batch[i]>>)), 1)

NothingShown ==
  /\ ui.success = -1
  /\ ui.metric1.kind = "none"
  /\ ~ui.date_shown
  /\ ~ui.chart
  /\ ~ui.table_shown
  /\ ~ui.exports

\* C5: a successful response that is an empty array or null ends in the
\* success outcome with an empty table and a zero count, never in st.error.
C5_EmptyBatchNoError ==
  (pc = "shown" /\ status = "success" /\ data \in {Null, Arr(<<>>)}) =>
    /\ outcome = "success"
    /\ ~ui.error.shown
    /\ ui.success = 0

\* C6: a successful response that is one mapping (a record, with at least
\* one field) is processed as a batch of exactly one record: one row is
\* produced and displayed, nothing raises.
C6_SingleObject ==
  (pc = "shown" /\ status = "success" /\ data.t = "object" /\ Truthy(data)) =>
    /\ outcome = "success"
    /\ Len(df.rows) = 1
    /\ ui.table_shown /\ Len(ui.table) = 1

\* C7: a successful response that is a bare string or integer is refused
\* with the dedicated InvalidBatchShape failure and nothing is rendered.
C7_InvalidBatchShape ==
  (pc = "shown" /\ status = "success" /\ data.t \in {"string", "int"}) =>
    /\ ui.exception = "InvalidBatchShape"
    /\ NothingShown

\* rows whose price enters the mean of the first metric
InMean == {i \in 1..Len(df.rows) : ~df.rows[i]["price_standardized"].nan}

\* C9: a record without a unit field gets the placeholder '€/unité' as
\* unit_standardized, and the mean price shown under one unit label never
\* joins records of unknown unit with records of a confirmed unit.
C9_UnknownUnitApart ==
  Normalised =>
    /\ \A i \in 1..Len(Batch) :
          ~HasUnit(Batch[i])
            => df.rows[i]["unit_standardized"] = StrCell(UnitPlaceholder)
    /\ \A i, j \in InMean : HasUnit(Batch[i]) <=> HasUnit(Batch[j])

\* C10: a record whose unit text is not a euro rate per single kilogram
\* keeps its price (price_standardized = price_numeric) and its unit text
\* verbatim as unit_standardized.
C10_PassThrough ==
  Normalised =>
    \A i \in 1..Len(Batch) :
       (HasUnit(Batch[i]) /\ Batch[i]["unit"].k = "str" /\ ~PerKgRate(Batch[i])) =>
         /\ df.rows[i]["price_standardized"] = df.rows[i]["price_numeric"]
         /\ df.rows[i]["unit_standardized"] = Batch[i]["unit"]

\* the date text of the record matches day/month/year
DateParses(r) ==
  /\ "beginDate" \in DOMAIN r
  /\ r["beginDate"].k = "str"
  /\ DateMatches(r["beginDate"].s)

\* C11: every record of a batch is retained, and each record whose
\* 'beginDate' parses as day/month/year has that date as its time point,
\* whether or not the date of another record of the batch fails to parse.
C11_TimePerRecord ==
  (outcome = "success" /\ data.t = "array") =>
    /\ Len(df.rows) = Len(Batch)
    /\ \A i \in 1..Len(Batch) :
          DateParses(Batch[i]) =>
            /\ "date_parsed" \in df.columns
            /\ df.rows[i]["date_parsed"] = ParseDate(Batch[i]["beginDate"].s)

\* C12: normalisation only adds attributes: every field a raw record
\* already has, whatever its name, keeps its value in the table, and the
\* table the caller passed to standardize_prices is left as received.
C12_OnlyAdds ==
  (outcome = "success" /\ data.t = "array") =>
    /\ \A i \in 1..Len(Batch) :
          \A f \in DOMAIN Batch[i] : df.rows[i][f] = Batch[i][f]
    /\ df_passed = DataFrame(Batch)

Years(seq) == {seq[i] : i \in 1..Len(seq)}

\* C13: every year get_optimal_years returns, offered in the sidebar as a
\* year with confirmed data, is a year whose probe returned success during
\* the call; the list is strictly descending, has at most max_years
\* entries and holds no year above the detected latest year.
C13_OfferedConfirmed ==
  /\ detection.label = "Années (détectées automatiquement)"
       => Years(detection.options) \subseteq detection.confirmed
  /\ Years(detection.optimal_years) \subseteq detection.confirmed
  /\ \A i, j \in 1..Len(detection.optimal_years) :
        i < j => detection.optimal_years[i] > detection.optimal_years[j]
  /\ Len(detection.optimal_years) <= MaxYears
  /\ \A y \in Years(detection.optimal_years) : y <= detection.latest_year

\* C14: in each of the four sectors of the selector, a press of the
\* analyse button with a country and a year selected issues exactly one
\* price request, status has left "not_called" when the results are
\* examined, and for olive oil every selected year contributes a marketing
\* year to the request.
C14_OneRequestPerPress ==
  (pc = "shown" /\ selected_countries # <<>> /\ selected_years # <<>>) =>
    /\ Len(requests) = 1
    /\ status # "not_called"
    /\ sector = "olive_oil" =>
          Len(requests[1].marketingYears) = Len(selected_years)

====
